---- MODULE Spec2Model ----
(***************************************************************************)
(* drone-robot: Robot Framework report statistics.                         *)
(*                                                                         *)
(*   Exec                   one goroutine per located file, each merging   *)
(*                          its processFile result into one StatsResult    *)
(*                          under one mutex; then log, export, validate.   *)
(*   computeStats (type.go) the tree walk, in its two variants: the        *)
(*                          concurrent one (a goroutine per test and per   *)
(*                          sub-suite) and the sequential shared-mutex one.*)
(*   aggregateStats         the merge, as a pure function.                 *)
(*   validateThresholds     the pass / unstable / fail decision.           *)
(***************************************************************************)
EXTENDS Integers, Sequences, FiniteSets, TLC

VARIABLES
    \* ---- Exec ----
    args,        \* Args: PassThreshold, UnstableThreshold, CountSkippedTests, OnlyCritical
    files,       \* what locateFiles returned: the number of readable files (0: it failed)
    mainpc,      \* Exec's own position
    spawned,     \* how many of the per-file goroutines the loop has started
    gpc,         \* per-file goroutine position
    fileStats,   \* per-file goroutine local: processFile's StatsResult
    fileErr,     \* per-file goroutine local: processFile's error (TRUE: an error)
    snap,        \* per-file goroutine: the global counters aggregateStats has read
    stats,       \* Exec's global StatsResult
    mu,          \* Exec's mutex: 0 when free, else the goroutine holding it
    logged,      \* what logAggregatedResults printed
    droneOutput, \* what writeTestStats wrote to DRONE_OUTPUT
    execErr,     \* the error Exec returned ("" for nil)
    warned,      \* validateThresholds logged the unstable warning
    partialRead, \* history: the global StatsResult was read before every task had joined
    lateMerge,   \* history: a merge wrote the global StatsResult after it was first read
    \* ---- the pure functions, applied to drawn inputs ----
    pin,         \* the drawn input
    pout,        \* what the function returned for it (<<>> before the call)
    \* ---- computeStats: one file's traversal ----
    variant,     \* which computeStats of type.go: "concurrent" or "sequential"
    tree,        \* robotOutput.Suite
    onlyCritical,
    countSkipped,
    prog,        \* per goroutine: the statements it will execute, in order
    tpc,         \* per goroutine: index of its next statement (0: not started)
    reg,         \* per goroutine: the value its pending += or append has read
    locks,       \* per sync.Mutex: the goroutine holding it, or NoOwner
    fstats,      \* computeStats' local StatsResult, shared through *stats
    cresult,     \* what computeStats returned (<<>> before it returns)
    \* ---- processFile ----
    file,        \* the file processFile is called for: what reading and parsing it give
    ppc,         \* processFile's position
    presult      \* what processFile returned (<<>> before it returns)

execVars == <<args, files, mainpc, spawned, gpc, fileStats, fileErr, snap, stats, mu,
              logged, droneOutput, execErr, warned, partialRead, lateMerge>>

pureVars == <<pin, pout>>

travVars == <<variant, tree, onlyCritical, countSkipped, prog, tpc, reg, locks,
              fstats, cresult>>

fileVars == <<file, ppc, presult>>

vars == <<execVars, pureVars, travVars, fileVars>>

----------------------------------------------------------------------------
(* Bounds of the model *)

MaxFiles == 2         \* files locateFiles may return
MaxThreshold == 3     \* thresholds range over 0..MaxThreshold
MaxFailed == 5        \* FailedTests of the StatsResults validateThresholds is applied to

----------------------------------------------------------------------------
(* Arithmetic helpers *)

RECURSIVE Gcd(_, _)
Gcd(a, b) == IF b = 0 THEN a ELSE Gcd(b, a % b)

\* (float64(n) / float64(d)) * 100 as the exact fraction 100n/d in lowest terms;
\* the float64 the code holds is a function of this fraction.
Percent(n, d) == LET g == Gcd(100 * n, d) IN <<(100 * n) \div g, d \div g>>

ZeroRate == <<0, 1>>

\* A sequence as an unordered collection: how many times each element occurs.
Count(seq, e) == Cardinality({i \in DOMAIN seq : seq[i] = e})
SameBag(s, t) ==
    /\ Len(s) = Len(t)
    /\ \A i \in DOMAIN s : Count(s, s[i]) = Count(t, s[i])

----------------------------------------------------------------------------
(* StatsResult, aggregateStats and validateThresholds *)

Counters == {"TotalSuites", "TotalTests", "PassedTests", "FailedTests", "SkippedTests",
             "TotalKeywords", "PassedKeywords", "FailedKeywords", "SkippedKeywords",
             "TotalCritical", "CriticalPassed", "CriticalFailed"}

StatsResult0 ==
    [TotalSuites |-> 0, TotalTests |-> 0, PassedTests |-> 0, FailedTests |-> 0,
     SkippedTests |-> 0, TotalKeywords |-> 0, PassedKeywords |-> 0,
     FailedKeywords |-> 0, SkippedKeywords |-> 0, TotalCritical |-> 0,
     CriticalPassed |-> 0, CriticalFailed |-> 0,
     FailureRate |-> ZeroRate, SkippedRate |-> ZeroRate, ExecutionTime |-> 0,
     FailedTestsDetails |-> <<>>]

FailedTestDetails(name, suite, msg) ==
    [Name |-> name, Suite |-> suite, Status |-> "FAIL", ErrorMessage |-> msg]

\* The rate recomputation both computeStats and aggregateStats end with.
WithRates(s) ==
    IF s.TotalTests > 0
    THEN [s EXCEPT !.FailureRate = Percent(s.FailedTests, s.TotalTests),
                   !.SkippedRate = Percent(s.SkippedTests, s.TotalTests)]
    ELSE [s EXCEPT !.FailureRate = ZeroRate, !.SkippedRate = ZeroRate]

\* aggregateStats with one += written as =.
aggregateStatsAssign(s, f) ==
    WithRates(
        [s EXCEPT !.TotalSuites = @ + f.TotalSuites,
                  !.TotalTests = @ + f.TotalTests,
                  !.PassedTests = @ + f.PassedTests,
                  !.FailedTests = @ + f.FailedTests,
                  !.SkippedTests = f.SkippedTests,
                  !.TotalKeywords = @ + f.TotalKeywords,
                  !.PassedKeywords = @ + f.PassedKeywords,
                  !.FailedKeywords = @ + f.FailedKeywords,
                  !.SkippedKeywords = @ + f.SkippedKeywords,
                  !.TotalCritical = @ + f.TotalCritical,
                  !.CriticalPassed = @ + f.CriticalPassed,
                  !.CriticalFailed = @ + f.CriticalFailed,
                  !.ExecutionTime = @ + f.ExecutionTime,
                  !.FailedTestsDetails = @ \o f.FailedTestsDetails])

\* The mean of two rates, in lowest terms.
Mean(a, b) ==
    LET n == a[1] * b[2] + b[1] * a[2]
        d == 2 * a[2] * b[2]
        g == Gcd(n, d)
    IN <<n \div g, d \div g>>

\* aggregateStats averaging the two rates instead of recomputing them.
aggregateStatsAverage(s, f) ==
    [s EXCEPT !.TotalSuites = @ + f.TotalSuites,
              !.TotalTests = @ + f.TotalTests,
              !.PassedTests = @ + f.PassedTests,
              !.FailedTests = @ + f.FailedTests,
              !.SkippedTests = @ + f.SkippedTests,
              !.TotalKeywords = @ + f.TotalKeywords,
              !.PassedKeywords = @ + f.PassedKeywords,
              !.FailedKeywords = @ + f.FailedKeywords,
              !.SkippedKeywords = @ + f.SkippedKeywords,
              !.TotalCritical = @ + f.TotalCritical,
              !.CriticalPassed = @ + f.CriticalPassed,
              !.CriticalFailed = @ + f.CriticalFailed,
              !.FailureRate = Mean(@, f.FailureRate),
              !.SkippedRate = Mean(@, f.SkippedRate),
              !.ExecutionTime = @ + f.ExecutionTime,
              !.FailedTestsDetails = @ \o f.FailedTestsDetails]

aggregateStats(s, f) ==
    WithRates(
        [TotalSuites |-> s.TotalSuites + f.TotalSuites,
         TotalTests |-> s.TotalTests + f.TotalTests,
         PassedTests |-> s.PassedTests + f.PassedTests,
         FailedTests |-> s.FailedTests + f.FailedTests,
         SkippedTests |-> s.SkippedTests + f.SkippedTests,
         TotalKeywords |-> s.TotalKeywords + f.TotalKeywords,
         PassedKeywords |-> s.PassedKeywords + f.PassedKeywords,
         FailedKeywords |-> s.FailedKeywords + f.FailedKeywords,
         SkippedKeywords |-> s.SkippedKeywords + f.SkippedKeywords,
         TotalCritical |-> s.TotalCritical + f.TotalCritical,
         CriticalPassed |-> s.CriticalPassed + f.CriticalPassed,
         CriticalFailed |-> s.CriticalFailed + f.CriticalFailed,
         FailureRate |-> s.FailureRate,
         SkippedRate |-> s.SkippedRate,
         ExecutionTime |-> s.ExecutionTime + f.ExecutionTime,
         FailedTestsDetails |-> s.FailedTestsDetails \o f.FailedTestsDetails])

\* validateThresholds: err is the returned error ("" for nil) with the two numbers
\* it formats; warn is the logrus warning of the unstable branch.
NoError == [err |-> "", failed |-> 0, threshold |-> 0, warn |-> FALSE]

\* validateThresholds comparing with >= instead of >.
validateThresholdsGE(s, a) ==
    IF s.FailedTests >= a.PassThreshold
    THEN [err |-> "exceeds the pass threshold", failed |-> s.FailedTests,
          threshold |-> a.PassThreshold, warn |-> FALSE]
    ELSE [NoError EXCEPT !.warn = s.FailedTests >= a.UnstableThreshold]

\* validateThresholds returning an error from the unstable branch too.
validateThresholdsUnstableErr(s, a) ==
    IF s.FailedTests > a.PassThreshold \/ s.FailedTests > a.UnstableThreshold
    THEN [err |-> "exceeds the pass threshold", failed |-> s.FailedTests,
          threshold |-> a.PassThreshold, warn |-> FALSE]
    ELSE NoError

validateThresholds(s, a) ==
    IF s.FailedTests > a.PassThreshold
    THEN [err |-> "exceeds the pass threshold", failed |-> s.FailedTests,
          threshold |-> a.PassThreshold, warn |-> FALSE]
    ELSE [NoError EXCEPT !.warn = s.FailedTests > a.UnstableThreshold]

----------------------------------------------------------------------------
(* Exec: the per-file fan-out, the merge under the mutex, the reads after  *)
(* the join, the threshold decision.                                       *)

\* What processFile can hand back. The three StatsResults are the ones the
\* repository's tests expect of computeStats/processFile.
ReportStats ==
    WithRates([StatsResult0 EXCEPT
        !.TotalSuites = 1, !.TotalTests = 4, !.PassedTests = 1, !.FailedTests = 2,
        !.SkippedTests = 1, !.TotalCritical = 2, !.CriticalPassed = 1,
        !.CriticalFailed = 1, !.ExecutionTime = 10960,
        !.FailedTestsDetails =
            <<FailedTestDetails("Test Case 2 - Critical Fail", "Advanced Test Suite",
                                "Critical test failed: Major issue detected"),
              FailedTestDetails("Test Case 3 - Non-Critical Fail", "Advanced Test Suite",
                                "Non-critical test failed")>>])

AllPassStats ==
    WithRates([StatsResult0 EXCEPT
        !.TotalSuites = 1, !.TotalTests = 2, !.PassedTests = 2,
        !.TotalCritical = 1, !.CriticalPassed = 1])

OneFailStats ==
    WithRates([StatsResult0 EXCEPT
        !.TotalSuites = 1, !.TotalTests = 3, !.PassedTests = 1, !.FailedTests = 1,
        !.SkippedTests = 1, !.TotalCritical = 2, !.CriticalPassed = 1,
        !.CriticalFailed = 1, !.TotalKeywords = 2, !.PassedKeywords = 1,
        !.FailedKeywords = 1, !.ExecutionTime = 1500,
        !.FailedTestsDetails = <<FailedTestDetails("Test 3", "", "")>>])

\* processFile's (StatsResult, error): an error always comes with StatsResult{}.
ProcessFileResults ==
    {[stats |-> StatsResult0, err |-> TRUE],       \* unreadable, or xml.Unmarshal failed
     [stats |-> StatsResult0, err |-> FALSE],      \* zero-byte file, or empty root suite
     [stats |-> ReportStats, err |-> FALSE],
     [stats |-> AllPassStats, err |-> FALSE],
     [stats |-> OneFailStats, err |-> FALSE]}

Files == 1..files

\* writeTestStats' statsMap: thirteen of the sixteen fields.
StatsMap(s) ==
    [TOTAL_TESTS |-> s.TotalTests, PASSED_TESTS |-> s.PassedTests,
     FAILED_TESTS |-> s.FailedTests, SKIPPED_TESTS |-> s.SkippedTests,
     TOTAL_KEYWORDS |-> s.TotalKeywords, PASSED_KEYWORDS |-> s.PassedKeywords,
     FAILED_KEYWORDS |-> s.FailedKeywords, SKIPPED_KEYWORDS |-> s.SkippedKeywords,
     TOTAL_CRITICAL |-> s.TotalCritical, CRITICAL_PASSED |-> s.CriticalPassed,
     CRITICAL_FAILED |-> s.CriticalFailed,
     FAILURE_RATE |-> s.FailureRate, SKIPPED_RATE |-> s.SkippedRate]

AllJoined == \A f \in Files : gpc[f] = "done"
AfterFirstRead == mainpc \in {"write", "validate", "returned"}

\* The thresholds ValidateInputs lets through. The two flags only travel on to
\* processFile, whose results are drawn below whatever the flags are.
ArgsSet ==
    [ReportDirectory : {"./reports"},
     PassThreshold : 0..MaxThreshold, UnstableThreshold : 0..MaxThreshold,
     CountSkippedTests : {FALSE}, OnlyCritical : {FALSE}]

Args0 == [ReportDirectory |-> "./reports", PassThreshold |-> 0, UnstableThreshold |-> 0,
          CountSkippedTests |-> FALSE, OnlyCritical |-> FALSE]

\* The plugin's caller at position pc, nothing of Exec done yet, for the arguments a
\* and n located files.
ExecAt(pc, a, n) ==
    /\ args = a
    /\ files = n
    /\ mainpc = pc
    /\ spawned = 0
    /\ gpc = [f \in 1..MaxFiles |-> "idle"]
    /\ fileStats = [f \in 1..MaxFiles |-> StatsResult0]
    /\ fileErr = [f \in 1..MaxFiles |-> FALSE]
    /\ snap = [f \in 1..MaxFiles |-> StatsResult0]
    /\ stats = StatsResult0
    /\ mu = 0
    /\ logged = StatsResult0
    /\ droneOutput = <<>>
    /\ execErr = ""
    /\ warned = FALSE
    /\ partialRead = FALSE
    /\ lateMerge = FALSE

\* Exec before its first statement.
ExecStart(a, n) == ExecAt("locate", a, n)

\* No traversal under way, no pure function under test.
TravIdle ==
    /\ variant = "concurrent" /\ tree = <<>>
    /\ onlyCritical = FALSE /\ countSkipped = FALSE
    /\ prog = <<>> /\ tpc = <<>> /\ reg = <<>> /\ locks = <<>>
    /\ fstats = StatsResult0 /\ cresult = <<>>

PureIdle == pin = <<>> /\ pout = <<>>

\* No processFile call under way.
FileIdle == file = <<>> /\ ppc = "idle" /\ presult = <<>>

InitExec ==
    /\ \E a \in ArgsSet, n \in 0..MaxFiles : ExecStart(a, n)
    /\ PureIdle
    /\ TravIdle
    /\ FileIdle

\* Exec lines 43-51: locateFiles failed (it never returns an empty list).
ExecLocateFails ==
    /\ mainpc = "locate" /\ files = 0
    /\ mainpc' = "returned"
    /\ execErr' = "failed to locate files"
    /\ UNCHANGED <<pureVars, travVars, fileVars>>
    /\ UNCHANGED <<args, files, spawned, gpc, fileStats, fileErr, snap, stats, mu,
                   logged, droneOutput, warned, partialRead, lateMerge>>

\* Exec lines 43-55: files located; wg, mu and stats := StatsResult{} declared.
ExecLocated ==
    /\ mainpc = "locate" /\ files > 0
    /\ mainpc' = "spawn"
    /\ stats' = StatsResult0
    /\ UNCHANGED <<pureVars, travVars, fileVars>>
    /\ UNCHANGED <<args, files, spawned, gpc, fileStats, fileErr, snap, mu,
                   logged, droneOutput, execErr, warned, partialRead, lateMerge>>

\* Exec lines 57-59: wg.Add(1); go func(f).
ExecSpawn ==
    /\ mainpc = "spawn" /\ spawned < files
    /\ spawned' = spawned + 1
    /\ gpc' = [gpc EXCEPT ![spawned + 1] = "start"]
    /\ UNCHANGED <<pureVars, travVars, fileVars>>
    /\ UNCHANGED <<args, files, mainpc, fileStats, fileErr, snap, stats, mu,
                   logged, droneOutput, execErr, warned, partialRead, lateMerge>>

\* Exec line 57: the range loop ends.
ExecSpawnedAll ==
    /\ mainpc = "spawn" /\ spawned = files
    /\ mainpc' = "wait"
    /\ UNCHANGED <<pureVars, travVars, fileVars>>
    /\ UNCHANGED <<args, files, spawned, gpc, fileStats, fileErr, snap, stats, mu,
                   logged, droneOutput, execErr, warned, partialRead, lateMerge>>

\* Exec line 61: fileStats, err := processFile(...); no error.
TaskProcessFileOk(f) ==
    /\ gpc[f] = "start"
    /\ \E r \in ProcessFileResults :
        /\ ~r.err
        /\ fileStats' = [fileStats EXCEPT ![f] = r.stats]
        /\ fileErr' = [fileErr EXCEPT ![f] = FALSE]
    /\ gpc' = [gpc EXCEPT ![f] = "computed"]
    /\ UNCHANGED <<pureVars, travVars, fileVars>>
    /\ UNCHANGED <<args, files, mainpc, spawned, snap, stats, mu,
                   logged, droneOutput, execErr, warned, partialRead, lateMerge>>

\* The task of a failed file ending the whole run instead of only itself.
TaskProcessFileErrAborts(f) ==
    /\ gpc[f] = "start"
    /\ fileErr' = [fileErr EXCEPT ![f] = TRUE]
    /\ gpc' = [gpc EXCEPT ![f] = "done"]
    /\ mainpc' = "returned"
    /\ execErr' = "failed to process file"
    /\ UNCHANGED <<pureVars, travVars, fileVars>>
    /\ UNCHANGED <<args, files, spawned, fileStats, snap, stats, mu,
                   logged, droneOutput, warned, partialRead, lateMerge>>

\* Exec lines 61-65 and 60: processFile failed: warn, return, deferred wg.Done().
TaskProcessFileErr(f) ==
    /\ gpc[f] = "start"
    /\ \E r \in ProcessFileResults :
        /\ r.err
        /\ fileStats' = [fileStats EXCEPT ![f] = r.stats]
        /\ fileErr' = [fileErr EXCEPT ![f] = TRUE]
    /\ gpc' = [gpc EXCEPT ![f] = "done"]
    /\ UNCHANGED <<pureVars, travVars, fileVars>>
    /\ UNCHANGED <<args, files, mainpc, spawned, snap, stats, mu,
                   logged, droneOutput, execErr, warned, partialRead, lateMerge>>

\* A Lock that excludes nobody.
CanLockAlways(f) == TRUE

\* sync.Mutex.Lock as the goroutine f sees it.
CanLock(f) == mu = 0

\* Exec line 66: mu.Lock().
TaskLock(f) ==
    /\ gpc[f] = "computed"
    /\ CanLock(f)
    /\ mu' = f
    /\ gpc' = [gpc EXCEPT ![f] = "locked"]
    /\ UNCHANGED <<pureVars, travVars, fileVars>>
    /\ UNCHANGED <<args, files, mainpc, spawned, fileStats, fileErr, snap, stats,
                   logged, droneOutput, execErr, warned, partialRead, lateMerge>>

\* Exec line 67, aggregateStats' reads of *stats (the right-hand sides of its +=).
TaskAggregateRead(f) ==
    /\ gpc[f] = "locked"
    /\ snap' = [snap EXCEPT ![f] = stats]
    /\ gpc' = [gpc EXCEPT ![f] = "merging"]
    /\ UNCHANGED <<pureVars, travVars, fileVars>>
    /\ UNCHANGED <<args, files, mainpc, spawned, fileStats, fileErr, stats, mu,
                   logged, droneOutput, execErr, warned, partialRead, lateMerge>>

\* Exec line 67, aggregateStats' writes to *stats.
TaskAggregateWrite(f) ==
    /\ gpc[f] = "merging"
    /\ stats' = aggregateStats(snap[f], fileStats[f])
    /\ gpc' = [gpc EXCEPT ![f] = "merged"]
    /\ lateMerge' = (lateMerge \/ AfterFirstRead)
    /\ UNCHANGED <<pureVars, travVars, fileVars>>
    /\ UNCHANGED <<args, files, mainpc, spawned, fileStats, fileErr, snap, mu,
                   logged, droneOutput, execErr, warned, partialRead>>

\* Exec lines 68 and 60: mu.Unlock(); deferred wg.Done().
TaskUnlock(f) ==
    /\ gpc[f] = "merged"
    /\ mu' = IF mu = f THEN 0 ELSE mu
    /\ gpc' = [gpc EXCEPT ![f] = "done"]
    /\ UNCHANGED <<pureVars, travVars, fileVars>>
    /\ UNCHANGED <<args, files, mainpc, spawned, fileStats, fileErr, snap, stats,
                   logged, droneOutput, execErr, warned, partialRead, lateMerge>>

\* A Wait that does not wait.
WaitReturnsEarly == TRUE

\* sync.WaitGroup.Wait: returns once every Add has met its Done.
WaitReturns == AllJoined

\* Exec line 71: wg.Wait().
ExecWait ==
    /\ mainpc = "wait"
    /\ WaitReturns
    /\ mainpc' = "log"
    /\ UNCHANGED <<pureVars, travVars, fileVars>>
    /\ UNCHANGED <<args, files, spawned, gpc, fileStats, fileErr, snap, stats, mu,
                   logged, droneOutput, execErr, warned, partialRead, lateMerge>>

\* Exec line 73: logAggregatedResults(stats).
ExecLog ==
    /\ mainpc = "log"
    /\ logged' = stats
    /\ partialRead' = (partialRead \/ ~AllJoined)
    /\ mainpc' = "write"
    /\ UNCHANGED <<pureVars, travVars, fileVars>>
    /\ UNCHANGED <<args, files, spawned, gpc, fileStats, fileErr, snap, stats, mu,
                   droneOutput, execErr, warned, lateMerge>>

\* Exec line 74: writeTestStats(stats).
ExecWrite ==
    /\ mainpc = "write"
    /\ droneOutput' = StatsMap(stats)
    /\ partialRead' = (partialRead \/ ~AllJoined)
    /\ mainpc' = "validate"
    /\ UNCHANGED <<pureVars, travVars, fileVars>>
    /\ UNCHANGED <<args, files, spawned, gpc, fileStats, fileErr, snap, stats, mu,
                   logged, execErr, warned, lateMerge>>

\* Exec lines 77-81: validateThresholds(stats, args); its error is Exec's.
ExecValidate ==
    /\ mainpc = "validate"
    /\ LET v == validateThresholds(stats, args) IN
        /\ execErr' = v.err
        /\ warned' = v.warn
    /\ partialRead' = (partialRead \/ ~AllJoined)
    /\ mainpc' = "returned"
    /\ UNCHANGED <<pureVars, travVars, fileVars>>
    /\ UNCHANGED <<args, files, spawned, gpc, fileStats, fileErr, snap, stats, mu,
                   logged, droneOutput, lateMerge>>

NextExec ==
    \/ ExecLocateFails
    \/ ExecLocated
    \/ ExecSpawn
    \/ ExecSpawnedAll
    \/ \E f \in 1..MaxFiles : TaskProcessFileOk(f)
    \/ \E f \in 1..MaxFiles : TaskProcessFileErr(f)
    \/ \E f \in 1..MaxFiles : TaskLock(f)
    \/ \E f \in 1..MaxFiles : TaskAggregateRead(f)
    \/ \E f \in 1..MaxFiles : TaskAggregateWrite(f)
    \/ \E f \in 1..MaxFiles : TaskUnlock(f)
    \/ ExecWait
    \/ ExecLog
    \/ ExecWrite
    \/ ExecValidate

Spec == InitExec /\ [][NextExec]_vars

----------------------------------------------------------------------------
(* The caller: ValidateInputs, then Exec. *)

MaxNegative == 1      \* thresholds range down to -MaxNegative

\* ValidateInputs accepting only UnstableThreshold <= PassThreshold.
ValidateInputsOrdered(a) ==
    IF a.ReportDirectory = "" THEN "output path is required"
    ELSE IF a.PassThreshold < 0 \/ a.UnstableThreshold < 0
              \/ a.UnstableThreshold > a.PassThreshold
         THEN "threshold values must be non-negative"
         ELSE ""

\* ValidateInputs (part_000 lines 28-39); "" is the nil error. The default it gives
\* ReportFileNamePattern goes to its own copy of args and is lost on return.
ValidateInputs(a) ==
    IF a.ReportDirectory = "" THEN "output path is required"
    ELSE IF a.PassThreshold < 0 \/ a.UnstableThreshold < 0
         THEN "threshold values must be non-negative"
         ELSE ""

\* Any configuration the environment can hold.
InputArgsSet ==
    [ReportDirectory : {"", "./reports"},
     PassThreshold : (0 - MaxNegative)..MaxThreshold,
     UnstableThreshold : (0 - MaxNegative)..MaxThreshold,
     CountSkippedTests : {FALSE}, OnlyCritical : {FALSE}]

InitInputs ==
    /\ \E a \in InputArgsSet, n \in 0..MaxFiles : ExecAt("inputs", a, n)
    /\ PureIdle
    /\ TravIdle
    /\ FileIdle

\* The caller validates the configuration and calls Exec only when it is valid.
MainValidateInputs ==
    /\ mainpc = "inputs"
    /\ IF ValidateInputs(args) # ""
       THEN mainpc' = "returned" /\ execErr' = ValidateInputs(args)
       ELSE mainpc' = "locate" /\ UNCHANGED execErr
    /\ UNCHANGED <<pureVars, travVars, fileVars>>
    /\ UNCHANGED <<args, files, spawned, gpc, fileStats, fileErr, snap, stats, mu,
                   logged, droneOutput, warned, partialRead, lateMerge>>

NextInputs == MainValidateInputs \/ NextExec

SpecInputs == InitInputs /\ [][NextInputs]_vars

----------------------------------------------------------------------------
(* validateThresholds applied to drawn StatsResults and thresholds *)

Outcome(v) == IF v.err # "" THEN "Fail" ELSE IF v.warn THEN "Unstable" ELSE "Pass"

ValidateStats ==
    {WithRates([StatsResult0 EXCEPT !.TotalTests = MaxFailed, !.FailedTests = n]) :
        n \in 0..MaxFailed}

InitValidate ==
    /\ ExecStart(Args0, 0)
    /\ pin \in [stats : ValidateStats, args : ArgsSet]
    /\ pout = <<>>
    /\ TravIdle
    /\ FileIdle

Validate ==
    /\ pout = <<>>
    /\ pout' = <<validateThresholds(pin.stats, pin.args)>>
    /\ UNCHANGED <<pin, execVars, travVars, fileVars>>

SpecValidate == InitValidate /\ [][Validate]_vars

\* C1: validateThresholds decides Fail when FailedTests > PassThreshold (the error
\* carrying FailedTests and PassThreshold), otherwise Unstable when
\* FailedTests > UnstableThreshold, otherwise Pass.
C1_ThresholdOrder ==
    pout # <<>> =>
        LET F == pin.stats.FailedTests
            P == pin.args.PassThreshold
            U == pin.args.UnstableThreshold
            v == pout[1]
        IN /\ F > P => Outcome(v) = "Fail" /\ v.failed = F /\ v.threshold = P
           /\ (F <= P /\ F > U) => Outcome(v) = "Unstable"
           /\ (F <= P /\ F <= U) => Outcome(v) = "Pass"

\* The unstable branch taken: UnstableThreshold < FailedTests <= PassThreshold.
C1_Witness ==
    /\ pout # <<>>
    /\ pin.stats.FailedTests > pin.args.UnstableThreshold
    /\ pin.stats.FailedTests <= pin.args.PassThreshold
    /\ Outcome(pout[1]) = "Unstable"

----------------------------------------------------------------------------
(* aggregateStats folded over drawn per-file results, in every order and   *)
(* grouping                                                                *)

MergeLen == 3         \* how many per-file results are merged

MergeInputs == {r.stats : r \in {q \in ProcessFileResults : ~q.err}}

RECURSIVE FoldLeft(_, _)
\* The accumulator acc after merging seq's results into it one by one.
FoldLeft(acc, seq) ==
    IF seq = <<>> THEN acc ELSE FoldLeft(aggregateStats(acc, Head(seq)), Tail(seq))

RECURSIVE FoldRight(_)
\* seq's results merged right to left: seq[1] + (seq[2] + (...)).
FoldRight(seq) ==
    IF Len(seq) = 1 THEN seq[1] ELSE aggregateStats(seq[1], FoldRight(Tail(seq)))

Permuted(seq, perm) == [i \in DOMAIN seq |-> seq[perm[i]]]

Perms(n) == {f \in [1..n -> 1..n] : \A i, j \in 1..n : f[i] = f[j] => i = j}

\* The groupings: 0 merges one by one into the empty accumulator; k > 0 first merges
\* the results after the k-th among themselves, right to left, and then merges that
\* into the accumulator holding the first k.
Grouped(seq, k) ==
    IF k = 0 \/ k >= Len(seq) THEN FoldLeft(StatsResult0, seq)
    ELSE aggregateStats(FoldLeft(StatsResult0, SubSeq(seq, 1, k)),
                        FoldRight(SubSeq(seq, k + 1, Len(seq))))

InitMerge ==
    /\ ExecStart(Args0, 0)
    /\ pin \in [1..MergeLen -> MergeInputs]
    /\ pout = <<>>
    /\ TravIdle
    /\ FileIdle

Merge ==
    /\ pout = <<>>
    /\ \E perm \in Perms(MergeLen), k \in 0..(MergeLen - 1) :
        pout' = <<Grouped(Permuted(pin, perm), k)>>
    /\ UNCHANGED <<pin, execVars, travVars, fileVars>>

SpecMerge == InitMerge /\ [][Merge]_vars

SameStats(a, b) ==
    /\ \A c \in Counters : a[c] = b[c]
    /\ a.ExecutionTime = b.ExecutionTime
    /\ a.FailureRate = b.FailureRate
    /\ a.SkippedRate = b.SkippedRate
    /\ SameBag(a.FailedTestsDetails, b.FailedTestsDetails)

\* C3: merging is associative and commutative: every permutation and every grouping
\* of the same per-file results yields the counters, execution time and rates of the
\* one-by-one merge in the given order, and the same FailedTestsDetails as a bag.
C3_MergeAssocComm ==
    pout # <<>> => SameStats(pout[1], FoldLeft(StatsResult0, pin))

C3_Witness ==
    /\ pout # <<>>
    /\ pout[1].FailedTests = 3
    /\ pout[1].TotalTests = 9
    /\ pout[1].FailedTestsDetails # FoldLeft(StatsResult0, pin).FailedTestsDetails

----------------------------------------------------------------------------
(* Claims about Exec *)

RECURSIVE MergedSum(_, _)
\* Field c summed over the first n files' results that came without an error.
MergedSum(n, c) ==
    IF n = 0 THEN 0
    ELSE MergedSum(n - 1, c) + (IF fileErr[n] THEN 0 ELSE fileStats[n][c])

RECURSIVE MergedDetails(_)
MergedDetails(n) ==
    IF n = 0 THEN <<>>
    ELSE MergedDetails(n - 1)
            \o (IF fileErr[n] THEN <<>> ELSE fileStats[n].FailedTestsDetails)

InMerge(f) == gpc[f] \in {"locked", "merging", "merged"}

\* C2: once files are located, Exec returns an error iff the merged FailedTests
\* exceeds PassThreshold; exceeding only UnstableThreshold gives no error.
C2_ExecErrorIffFail ==
    (mainpc = "returned" /\ files > 0) =>
        /\ (execErr # "") <=> (MergedSum(files, "FailedTests") > args.PassThreshold)
        /\ (/\ MergedSum(files, "FailedTests") > args.UnstableThreshold
            /\ MergedSum(files, "FailedTests") <= args.PassThreshold) => execErr = ""

C2_Witness ==
    /\ mainpc = "returned" /\ files > 0
    /\ MergedSum(files, "FailedTests") > args.UnstableThreshold
    /\ MergedSum(files, "FailedTests") <= args.PassThreshold
    /\ warned /\ execErr = ""

\* C4: every merge is made holding the one mutex and applies a per-file result that
\* is already computed; after the join each global counter is the sum of the
\* per-file results of the files processed without error.
C4_MergeUnderMutex ==
    /\ \A f \in 1..MaxFiles : InMerge(f) => (mu = f /\ ~fileErr[f])
    /\ \A f, g \in 1..MaxFiles : (InMerge(f) /\ InMerge(g)) => f = g
    /\ mainpc \in {"log", "write", "validate", "returned"} /\ files > 0 =>
        /\ \A c \in Counters : stats[c] = MergedSum(files, c)
        /\ stats.ExecutionTime = MergedSum(files, "ExecutionTime")
        /\ SameBag(stats.FailedTestsDetails, MergedDetails(files))

C4_Witness ==
    /\ mainpc = "returned" /\ files = 2
    /\ fileStats[1] = ReportStats /\ fileStats[2] = OneFailStats
    /\ stats.TotalTests = 7 /\ stats.FailedTests = 3

\* C5: the global StatsResult is read (logged, exported, validated) only after every
\* per-file task has finished, and no merge writes it after the first read.
C5_NoPartialRead ==
    /\ ~partialRead
    /\ ~lateMerge
    /\ mainpc \in {"write", "validate", "returned"} /\ files > 0 =>
        (AllJoined /\ logged = stats)
    /\ mainpc \in {"validate", "returned"} /\ files > 0 => droneOutput = StatsMap(stats)

C5_Witness ==
    /\ mainpc = "returned" /\ files = 2
    /\ logged.TotalTests = 6 /\ droneOutput.FAILED_TESTS = 2

\* C6: a file whose processFile fails contributes nothing to the global StatsResult,
\* every other file is still processed and merged, and Exec still reaches the
\* threshold decision: its only error is the threshold one.
C6_FailureIsolation ==
    /\ (mainpc # "returned") => ENABLED NextExec
    /\ (mainpc = "returned" /\ files > 0 /\ \E f \in Files : fileErr[f]) =>
        /\ \A f \in Files : gpc[f] = "done"
        /\ \A c \in Counters : stats[c] = MergedSum(files, c)
        /\ execErr = validateThresholds(stats, args).err

C6_Witness ==
    /\ mainpc = "returned" /\ files = 2
    /\ \E f, g \in Files : fileErr[f] /\ ~fileErr[g] /\ fileStats[g] = ReportStats
    /\ stats.TotalTests = 4
    /\ execErr = ""

----------------------------------------------------------------------------
(* The report tree (type.go, lines 5-63)                                   *)

Status(status, critical, start, end, msgs) ==
    [Status |-> status, Critical |-> critical, StartTime |-> start, EndTime |-> end,
     Messages |-> msgs]

Msg(level, text) == [Level |-> level, Text |-> text]

Keyword(name, status, kws) ==
    [Name |-> name, Status |-> Status(status, "", "", "", <<>>), Keywords |-> kws]

Test(name, st, kws) == [Name |-> name, Status |-> st, Keywords |-> kws]

Suite(name, st, tests, kws, suites) ==
    [Name |-> name, Status |-> st, Tests |-> tests, Keywords |-> kws, Suites |-> suites]

\* parseRobotTime: time.Parse with the layout "20060102 15:04:05.000". ms is the
\* parsed instant in milliseconds since 2025-01-01 00:00:00.000; ok is err == nil.
parseRobotTime(timestamp) ==
    CASE timestamp = "20250101 12:00:00.000" -> [ok |-> TRUE, ms |-> 43200000]
      [] timestamp = "20250101 12:00:01.500" -> [ok |-> TRUE, ms |-> 43201500]
      [] timestamp = "20250101 12:00:10.960" -> [ok |-> TRUE, ms |-> 43210960]
      [] OTHER -> [ok |-> FALSE, ms |-> 0]

\* The tests the trees are built from.
TestPassCritical ==
    Test("Test 1",
         Status("PASS", "yes", "20250101 12:00:00.000", "20250101 12:00:01.500", <<>>),
         <<>>)

TestFail ==
    Test("Test 2",
         Status("FAIL", "no", "", "",
                <<Msg("ERROR", "first error"), Msg("ERROR", "last error"),
                  Msg("INFO", "done")>>),
         <<>>)

TestSkip == Test("Test 3", Status("SKIP", "", "2025-01-01T12:00:00", "", <<>>), <<>>)

TestKeywords ==
    Test("Test 4", Status("PASS", "no", "", "", <<>>),
         <<Keyword("Log", "PASS", <<Keyword("Inner", "FAIL", <<>>)>>)>>)

Tests == {TestPassCritical, TestFail, TestSkip, TestKeywords}

MaxTests == 2         \* direct tests of a suite

NoTime == Status("", "", "", "", <<>>)
Timed == Status("FAIL", "", "20250101 12:00:00.000", "20250101 12:00:10.960", <<>>)

\* Timestamps that parse, the end earlier than the start.
Reversed == Status("PASS", "", "20250101 12:00:01.500", "20250101 12:00:00.000", <<>>)

TestReversed ==
    Test("Test 5",
         Status("PASS", "no", "20250101 12:00:10.960", "20250101 12:00:00.000", <<>>),
         <<>>)

\* A start that parses with an end that does not.
HalfTimed == Status("PASS", "", "20250101 12:00:00.000", "2025-01-01T12:00:10", <<>>)

\* One suite holding up to MaxTests tests.
FlatTrees ==
    UNION {{Suite("Root", Timed, ts, <<>>, <<>>) : ts \in [1..n -> Tests]} :
            n \in 0..MaxTests}

\* A test beside a sub-suite holding a test.
NestedTrees ==
    {Suite("Root", NoTime, <<a>>, <<>>, <<Suite("Sub", NoTime, <<b>>, <<>>, <<>>)>>) :
        a \in Tests, b \in Tests}

\* Two sibling sub-suites, the second one with or without a test.
SiblingTrees ==
    {Suite("Root", NoTime, <<>>, <<>>,
           <<Suite("Sub 1", NoTime, <<a>>, <<>>, <<>>),
             Suite("Sub 2", NoTime, ts, <<>>, <<>>)>>) :
        a \in Tests, ts \in {<<>>} \cup {<<b>> : b \in Tests}}

\* A suite that ends before it starts, holding one test.
ReversedTrees ==
    {Suite("Root", Reversed, <<a>>, <<>>, <<>>) : a \in Tests \cup {TestReversed}}

\* A suite whose end timestamp does not parse, holding one test.
HalfTimedTrees == {Suite("Root", HalfTimed, <<a>>, <<>>, <<>>) : a \in Tests}

\* A suite with a setup keyword of its own, holding one test.
SuiteKeywordTrees ==
    {Suite("Root", NoTime, <<a>>,
           <<Keyword("Setup", "PASS", <<Keyword("Open", "SKIP", <<>>)>>)>>, <<>>) :
        a \in Tests}

Trees ==
    FlatTrees \cup NestedTrees \cup SiblingTrees \cup ReversedTrees \cup HalfTimedTrees
        \cup SuiteKeywordTrees

----------------------------------------------------------------------------
(* computeStats: statements, goroutines, mutexes                           *)

Main == <<"main", 0>>         \* computeStats' caller
Root == <<"suite", 0>>        \* the goroutine computeStats starts for the root suite
SharedMu == <<"mu", 0>>       \* the sequential variant's one mutex (type.go line 273)
NoOwner == <<>>

TestId(p, i) == p \o <<"t", i>>
SuiteId(p, i) == p \o <<"s", i>>

Stmt(op, f, v) == [op |-> op, f |-> f, v |-> v]
LockOp(m) == <<Stmt("lock", m, 0)>>
UnlockOp(m) == <<Stmt("unlock", m, 0)>>
\* stats.f += v, as the read of stats.f and the write of the sum.
Add(f, v) == <<Stmt("read", f, 0), Stmt("write", f, v)>>
Inc(f) == Add(f, 1)
SpawnOp(g) == <<Stmt("spawn", g, 0)>>
WaitOp == <<Stmt("wait", 0, 0)>>

RECURSIVE Concat(_)
Concat(seqs) == IF seqs = <<>> THEN <<>> ELSE Head(seqs) \o Concat(Tail(seqs))

\* errorMsg of processTest: the text of the last ERROR message, "" if none.
RECURSIVE LastError(_, _)
LastError(msgs, acc) ==
    IF msgs = <<>> THEN acc
    ELSE LastError(Tail(msgs), IF Head(msgs).Level = "ERROR" THEN Head(msgs).Text ELSE acc)

\* ExecutionTime += end - start with the two parse errors ignored.
ExecutionTimeOpsUnchecked(st) ==
    Add("ExecutionTime", parseRobotTime(st.EndTime).ms - parseRobotTime(st.StartTime).ms)

\* ExecutionTime += end - start (milliseconds) when both timestamps parse.
ExecutionTimeOps(st) ==
    LET s == parseRobotTime(st.StartTime)
        e == parseRobotTime(st.EndTime)
    IN IF s.ok /\ e.ok THEN Add("ExecutionTime", e.ms - s.ms) ELSE <<>>

\* The switch on test.Status.Status of processTest (type.go lines 206-227).
OutcomeOps(test, suiteName, cs) ==
    LET crit == test.Status.Critical = "yes" IN
    CASE test.Status.Status = "PASS" ->
            Inc("PassedTests") \o (IF crit THEN Inc("CriticalPassed") ELSE <<>>)
      [] test.Status.Status = "FAIL" ->
            Inc("FailedTests") \o (IF crit THEN Inc("CriticalFailed") ELSE <<>>)
            \o Add("FailedTestsDetails",
                   FailedTestDetails(test.Name, suiteName,
                                     LastError(test.Status.Messages, "")))
      [] test.Status.Status = "SKIP" ->
            IF cs THEN Inc("SkippedTests") ELSE <<>>
      [] OTHER -> <<>>

RECURSIVE processKeyword(_, _)
\* processKeyword (type.go lines 237-256 and 387-406, the same text).
processKeyword(kw, m) ==
    LockOp(m) \o Inc("TotalKeywords")
    \o (CASE kw.Status.Status = "PASS" -> Inc("PassedKeywords")
          [] kw.Status.Status = "FAIL" -> Inc("FailedKeywords")
          [] kw.Status.Status = "SKIP" -> Inc("SkippedKeywords")
          [] OTHER -> <<>>)
    \o UnlockOp(m)
    \o Concat([i \in DOMAIN kw.Keywords |-> processKeyword(kw.Keywords[i], m)])

\* processTest (type.go lines 174-234).
processTest(test, suiteName, m, cs) ==
    LockOp(m) \o Inc("TotalTests") \o UnlockOp(m)
    \o (IF ExecutionTimeOps(test.Status) # <<>>
        THEN LockOp(m) \o ExecutionTimeOps(test.Status) \o UnlockOp(m) ELSE <<>>)
    \o (IF test.Status.Critical = "yes"
        THEN LockOp(m) \o Inc("TotalCritical") \o UnlockOp(m) ELSE <<>>)
    \o LockOp(m) \o OutcomeOps(test, suiteName, cs) \o UnlockOp(m)
    \o Concat([i \in DOMAIN test.Keywords |-> processKeyword(test.Keywords[i], m)])

\* A processSuite that skips no test.
CountedAll(test, oc) == TRUE

\* A processSuite of the concurrent variant that also descends into the suite's own
\* keywords.
processSuiteKeywords(suite, p, oc) ==
    (IF Len(suite.Tests) > 0 \/ Len(suite.Suites) > 0
     THEN LockOp(p) \o Inc("TotalSuites") \o UnlockOp(p) ELSE <<>>)
    \o (IF ExecutionTimeOps(suite.Status) # <<>>
        THEN LockOp(p) \o ExecutionTimeOps(suite.Status) \o UnlockOp(p) ELSE <<>>)
    \o Concat([i \in DOMAIN suite.Keywords |-> processKeyword(suite.Keywords[i], p)])
    \o Concat([i \in DOMAIN suite.Tests |->
                IF ~(oc /\ suite.Tests[i].Status.Critical # "yes")
                THEN SpawnOp(TestId(p, i)) ELSE <<>>])
    \o Concat([i \in DOMAIN suite.Suites |-> SpawnOp(SuiteId(p, i))])
    \o WaitOp

\* The tests processSuite does not skip (type.go lines 151-153 and 316-318).
Counted(test, oc) == ~(oc /\ test.Status.Critical # "yes")

\* The mutex a processSuite call of the concurrent variant works with: its own
\* local one (type.go line 130), named after the call.
SuiteMu(p) == p

\* processSuite of the concurrent variant (type.go lines 129-171), called for the
\* suite at p.
processSuite(suite, p, oc) ==
    (IF Len(suite.Tests) > 0 \/ Len(suite.Suites) > 0
     THEN LockOp(SuiteMu(p)) \o Inc("TotalSuites") \o UnlockOp(SuiteMu(p)) ELSE <<>>)
    \o (IF ExecutionTimeOps(suite.Status) # <<>>
        THEN LockOp(SuiteMu(p)) \o ExecutionTimeOps(suite.Status) \o UnlockOp(SuiteMu(p))
        ELSE <<>>)
    \o Concat([i \in DOMAIN suite.Tests |->
                IF Counted(suite.Tests[i], oc) THEN SpawnOp(TestId(p, i)) ELSE <<>>])
    \o Concat([i \in DOMAIN suite.Suites |-> SpawnOp(SuiteId(p, i))])
    \o WaitOp

RECURSIVE processSuiteSeq(_, _, _)
\* processSuite of the sequential variant (type.go lines 295-379): everything in the
\* calling goroutine, under the mutex m it is handed.
processSuiteSeq(suite, m, oc) ==
    LockOp(m)
    \o (IF Len(suite.Tests) > 0 \/ Len(suite.Suites) > 0 THEN Inc("TotalSuites") ELSE <<>>)
    \o UnlockOp(m)
    \o (IF ExecutionTimeOps(suite.Status) # <<>>
        THEN LockOp(m) \o ExecutionTimeOps(suite.Status) \o UnlockOp(m) ELSE <<>>)
    \o Concat([i \in DOMAIN suite.Tests |->
                IF Counted(suite.Tests[i], oc)
                THEN LockOp(m) \o Inc("TotalTests")
                     \o ExecutionTimeOps(suite.Tests[i].Status)
                     \o (IF suite.Tests[i].Status.Critical = "yes"
                         THEN Inc("TotalCritical") ELSE <<>>)
                     \o OutcomeOps(suite.Tests[i], suite.Name, TRUE)
                     \o Concat([j \in DOMAIN suite.Tests[i].Keywords |->
                                 processKeyword(suite.Tests[i].Keywords[j], m)])
                     \o UnlockOp(m)
                ELSE <<>>])
    \o Concat([i \in DOMAIN suite.Suites |-> processSuiteSeq(suite.Suites[i], m, oc)])

\* computeStats itself (type.go lines 106-126 and 271-293).
computeStats ==
    SpawnOp(Root) \o WaitOp \o <<Stmt("rates", 0, 0), Stmt("return", 0, 0)>>

RECURSIVE SuiteIds(_, _)
\* The calls of processSuite: the suite at p and the suites below it.
SuiteIds(suite, p) ==
    {p} \cup UNION {SuiteIds(suite.Suites[i], SuiteId(p, i)) : i \in DOMAIN suite.Suites}

RECURSIVE SuiteAt(_, _, _)
\* The suite a processSuite call q is about, searched from the suite at p.
SuiteAt(suite, p, q) ==
    IF p = q THEN suite
    ELSE LET i == CHOOSE j \in DOMAIN suite.Suites :
                    SubSeq(q, 1, Len(p) + 2) = SuiteId(p, j)
         IN SuiteAt(suite.Suites[i], SuiteId(p, i), q)

TestIds(t) ==
    UNION {{TestId(p, i) : i \in DOMAIN SuiteAt(t, Root, p).Tests} : p \in SuiteIds(t, Root)}

\* The goroutines of one computeStats call.
Goroutines(v, t) ==
    IF v = "sequential" THEN {Main, Root} ELSE {Main} \cup SuiteIds(t, Root) \cup TestIds(t)

Mutexes(v, t) == IF v = "sequential" THEN {SharedMu} ELSE SuiteIds(t, Root)

\* What goroutine g executes.
Program(v, t, oc, cs, g) ==
    IF g = Main THEN computeStats
    ELSE IF v = "sequential" THEN processSuiteSeq(t, SharedMu, oc)
    ELSE IF g \in SuiteIds(t, Root) THEN processSuite(SuiteAt(t, Root, g), g, oc)
    ELSE LET p == SubSeq(g, 1, Len(g) - 2)
             s == SuiteAt(t, Root, p)
         IN processTest(s.Tests[g[Len(g)]], s.Name, SuiteMu(p), cs)

InitTraverse ==
    /\ ExecStart(Args0, 0)
    /\ PureIdle
    /\ variant \in {"concurrent", "sequential"}
    /\ tree \in Trees
    /\ onlyCritical \in BOOLEAN
    /\ countSkipped \in BOOLEAN
    /\ prog = [g \in Goroutines(variant, tree) |->
                Program(variant, tree, onlyCritical, countSkipped, g)]
    /\ tpc = [g \in Goroutines(variant, tree) |-> IF g = Main THEN 1 ELSE 0]
    /\ reg = [g \in Goroutines(variant, tree) |-> 0]
    /\ locks = [m \in Mutexes(variant, tree) |-> NoOwner]
    /\ fstats = StatsResult0
    /\ cresult = <<>>
    /\ FileIdle

\* computeStats has returned.
Returned == cresult # <<>>

Running(g) == tpc[g] >= 1 /\ tpc[g] <= Len(prog[g])
Finished(g) == tpc[g] > Len(prog[g])
Cur(g) == prog[g][tpc[g]]
At(g, op) == Running(g) /\ Cur(g).op = op
Step(g) == tpc' = [tpc EXCEPT ![g] = @ + 1]

\* A wg.Wait() that waits for nothing.
ChildrenNone(g) == {}

\* The goroutines g starts: what its wg.Wait() waits for.
Children(g) == {prog[g][i].f : i \in {j \in DOMAIN prog[g] : prog[g][j].op = "spawn"}}

\* mu.Lock(): blocks while the mutex is held, by whomever.
TLock(g) ==
    /\ At(g, "lock")
    /\ locks[Cur(g).f] = NoOwner
    /\ locks' = [locks EXCEPT ![Cur(g).f] = g]
    /\ Step(g)
    /\ UNCHANGED <<execVars, pureVars, fileVars, variant, tree, onlyCritical, countSkipped,
                   prog, reg, fstats, cresult>>

\* mu.Unlock().
TUnlock(g) ==
    /\ At(g, "unlock")
    /\ locks' = [locks EXCEPT ![Cur(g).f] = NoOwner]
    /\ Step(g)
    /\ UNCHANGED <<execVars, pureVars, fileVars, variant, tree, onlyCritical, countSkipped,
                   prog, reg, fstats, cresult>>

\* The read half of stats.f++ / stats.f += v / append(stats.f, ...).
TRead(g) ==
    /\ At(g, "read")
    /\ reg' = [reg EXCEPT ![g] = fstats[Cur(g).f]]
    /\ Step(g)
    /\ UNCHANGED <<execVars, pureVars, fileVars, variant, tree, onlyCritical, countSkipped,
                   prog, locks, fstats, cresult>>

\* The write half.
TWrite(g) ==
    /\ At(g, "write")
    /\ fstats' = [fstats EXCEPT ![Cur(g).f] =
                    IF Cur(g).f = "FailedTestsDetails" THEN Append(reg[g], Cur(g).v)
                    ELSE reg[g] + Cur(g).v]
    /\ reg' = [reg EXCEPT ![g] = 0]
    /\ Step(g)
    /\ UNCHANGED <<execVars, pureVars, fileVars, variant, tree, onlyCritical, countSkipped,
                   prog, locks, cresult>>

\* wg.Add(1); go func() { defer wg.Done(); ... }().
TSpawn(g) ==
    /\ At(g, "spawn")
    /\ tpc' = [tpc EXCEPT ![g] = @ + 1, ![Cur(g).f] = 1]
    /\ UNCHANGED <<execVars, pureVars, fileVars, variant, tree, onlyCritical, countSkipped,
                   prog, reg, locks, fstats, cresult>>

\* wg.Wait().
TWait(g) ==
    /\ At(g, "wait")
    /\ \A c \in Children(g) : Finished(c)
    /\ Step(g)
    /\ UNCHANGED <<execVars, pureVars, fileVars, variant, tree, onlyCritical, countSkipped,
                   prog, reg, locks, fstats, cresult>>

\* computeStats' rates (type.go lines 117-123 and 283-290).
TRates(g) ==
    /\ At(g, "rates")
    /\ fstats' = WithRates(fstats)
    /\ Step(g)
    /\ UNCHANGED <<execVars, pureVars, fileVars, variant, tree, onlyCritical, countSkipped,
                   prog, reg, locks, cresult>>

\* return stats.
TReturn(g) ==
    /\ At(g, "return")
    /\ cresult' = <<fstats>>
    /\ Step(g)
    /\ UNCHANGED <<execVars, pureVars, fileVars, variant, tree, onlyCritical, countSkipped,
                   prog, reg, locks, fstats>>

NextTraverse ==
    \/ \E g \in DOMAIN tpc : TLock(g)
    \/ \E g \in DOMAIN tpc : TUnlock(g)
    \/ \E g \in DOMAIN tpc : TRead(g)
    \/ \E g \in DOMAIN tpc : TWrite(g)
    \/ \E g \in DOMAIN tpc : TSpawn(g)
    \/ \E g \in DOMAIN tpc : TWait(g)
    \/ \E g \in DOMAIN tpc : TRates(g)
    \/ \E g \in DOMAIN tpc : TReturn(g)

SpecTraverse == InitTraverse /\ [][NextTraverse]_vars

----------------------------------------------------------------------------
(* processFile: read, parse, the two empty checks, computeStats. *)

\* The zero value of RobotOutput.Suite, what robotOutput holds until xml.Unmarshal
\* has filled it.
Suite0 == Suite("", NoTime, <<>>, <<>>, <<>>)

\* A root suite with a setup keyword of its own and nothing else.
KeywordOnlyTree == Suite("Root", Timed, <<>>, <<Keyword("Setup", "PASS", <<>>)>>, <<>>)

\* A report with a passed, two failed and a skipped test under one timed suite: the
\* one TestProcessFile reads (plugin_test.go lines 128-157).
ReportTree ==
    Suite("Advanced Test Suite", Timed,
          <<Test("Test Case 1 - Critical Pass", Status("PASS", "yes", "", "", <<>>), <<>>),
            Test("Test Case 2 - Critical Fail",
                 Status("FAIL", "yes", "", "",
                        <<Msg("ERROR", "Critical test failed: Major issue detected")>>),
                 <<>>),
            Test("Test Case 3 - Non-Critical Fail",
                 Status("FAIL", "no", "", "", <<Msg("ERROR", "Non-critical test failed")>>),
                 <<>>),
            Test("Test Case 4 - Skipped", Status("SKIP", "no", "", "", <<>>), <<>>)>>,
          <<>>, <<>>)

\* The files processFile can meet: unreadable, zero bytes long, not well-formed XML,
\* or a report.
FileKinds == {"unreadable", "empty", "malformed", "xml"}

\* processFile's (StatsResult, error); "" is the nil error.
FileResult(s, e) == [stats |-> s, err |-> e]

\* A processFile without its check for a suite with no tests.
EmptySuiteUnchecked(suite) == FALSE

\* processFile lines 143-146: the root suite has no direct test and no direct
\* sub-suite.
EmptySuite(suite) == Len(suite.Tests) = 0 /\ Len(suite.Suites) = 0

InitProcessFile ==
    /\ ExecStart(Args0, 0)
    /\ PureIdle
    /\ file \in [kind : FileKinds]
    /\ ppc = "read"
    /\ presult = <<>>
    /\ variant \in {"concurrent", "sequential"}
    /\ tree \in (IF file.kind = "xml" THEN Trees \cup {KeywordOnlyTree, ReportTree}
                 ELSE {Suite0})
    /\ onlyCritical \in BOOLEAN
    /\ countSkipped \in BOOLEAN
    /\ prog = [g \in Goroutines(variant, tree) |->
                Program(variant, tree, onlyCritical, countSkipped, g)]
    /\ tpc = [g \in Goroutines(variant, tree) |-> 0]
    /\ reg = [g \in Goroutines(variant, tree) |-> 0]
    /\ locks = [m \in Mutexes(variant, tree) |-> NoOwner]
    /\ fstats = StatsResult0
    /\ cresult = <<>>

\* processFile lines 123-127: os.ReadFile.
PFReadFile ==
    /\ ppc = "read"
    /\ IF file.kind = "unreadable"
       THEN ppc' = "returned" /\ presult' = <<FileResult(StatsResult0, "error opening file")>>
       ELSE ppc' = "len" /\ UNCHANGED presult
    /\ UNCHANGED <<execVars, pureVars, travVars, file>>

\* processFile lines 130-133: len(fileContent) == 0.
PFCheckLen ==
    /\ ppc = "len"
    /\ IF file.kind = "empty"
       THEN ppc' = "returned" /\ presult' = <<FileResult(StatsResult0, "")>>
       ELSE ppc' = "unmarshal" /\ UNCHANGED presult
    /\ UNCHANGED <<execVars, pureVars, travVars, file>>

\* processFile lines 135-140: xml.Unmarshal.
PFUnmarshal ==
    /\ ppc = "unmarshal"
    /\ IF file.kind = "malformed"
       THEN /\ ppc' = "returned"
            /\ presult' = <<FileResult(StatsResult0, "failed to parse output.xml")>>
       ELSE ppc' = "suite" /\ UNCHANGED presult
    /\ UNCHANGED <<execVars, pureVars, travVars, file>>

\* processFile lines 143-148: the empty-suite check, else the call of computeStats.
PFCheckSuite ==
    /\ ppc = "suite"
    /\ IF EmptySuite(tree)
       THEN /\ ppc' = "returned"
            /\ presult' = <<FileResult(StatsResult0, "")>>
            /\ UNCHANGED tpc
       ELSE /\ ppc' = "compute"
            /\ tpc' = [tpc EXCEPT ![Main] = 1]
            /\ UNCHANGED presult
    /\ UNCHANGED <<execVars, pureVars, file, variant, tree, onlyCritical, countSkipped,
                   prog, reg, locks, fstats, cresult>>

\* processFile line 148: return computeStats(...), nil.
PFReturn ==
    /\ ppc = "compute"
    /\ Returned
    /\ ppc' = "returned"
    /\ presult' = <<FileResult(cresult[1], "")>>
    /\ UNCHANGED <<execVars, pureVars, travVars, file>>

NextProcessFile ==
    \/ PFReadFile
    \/ PFCheckLen
    \/ PFUnmarshal
    \/ PFCheckSuite
    \/ PFReturn
    \/ NextTraverse

SpecProcessFile == InitProcessFile /\ [][NextProcessFile]_vars

----------------------------------------------------------------------------
(* Claims about computeStats *)

RECURSIVE FoldOps(_, _, _)
\* The StatsResult st after the statements ops run to their end one after the other,
\* each started goroutine running to its end at the point where it is started.
FoldOps(ops, st, r) ==
    IF ops = <<>> THEN st
    ELSE LET o == Head(ops) IN
         CASE o.op = "read" -> FoldOps(Tail(ops), st, st[o.f])
           [] o.op = "write" ->
                FoldOps(Tail(ops),
                        [st EXCEPT ![o.f] = IF o.f = "FailedTestsDetails"
                                            THEN Append(r, o.v) ELSE r + o.v], 0)
           [] o.op = "spawn" -> FoldOps(Tail(ops), FoldOps(prog[o.f], st, 0), 0)
           [] o.op = "rates" -> FoldOps(Tail(ops), WithRates(st), 0)
           [] OTHER -> FoldOps(Tail(ops), st, r)

\* The sequential fold of the tree.
SequentialFold == FoldOps(prog[Main], StatsResult0, 0)

\* Inside a StatsResult update: its read done or due, its write not yet made.
InUpdate(g) == At(g, "read") \/ At(g, "write")

\* C7: in the concurrent traversal every mutation of the per-file StatsResult is made
\* under one and the same mutex, so no two goroutines are inside a StatsResult update
\* at the same time.
C7_OneMutexPerFile ==
    variant = "concurrent" =>
        \A g, h \in DOMAIN tpc : (InUpdate(g) /\ InUpdate(h)) => g = h

\* C8: in the concurrent traversal every interleaving ends with the integer counters
\* of the sequential fold of the tree.
C8_CountersDeterministic ==
    (variant = "concurrent" /\ Returned) =>
        \A c \in Counters : cresult[1][c] = SequentialFold[c]

\* C9: a started traversal runs to completion: until computeStats has returned, some
\* goroutine can always take a step (none is blocked for ever on a mutex or a join).
C9_RunsToCompletion == Returned \/ ENABLED NextTraverse

\* C10: with countSkipped = true and onlyCritical = false the result of computeStats
\* has PassedTests + FailedTests + SkippedTests = TotalTests.
C10_OutcomesSumToTotal ==
    (Returned /\ countSkipped /\ ~onlyCritical) =>
        cresult[1].PassedTests + cresult[1].FailedTests + cresult[1].SkippedTests
            = cresult[1].TotalTests

\* A rate <<n, d>> lies within [0, 100].
RateInRange(r) == r[1] >= 0 /\ r[2] > 0 /\ r[1] <= 100 * r[2]

\* C11: the result of computeStats has TotalCritical <= TotalTests and
\* CriticalPassed + CriticalFailed <= TotalCritical.
C11_CriticalBounds ==
    Returned =>
        /\ cresult[1].TotalCritical <= cresult[1].TotalTests
        /\ cresult[1].CriticalPassed + cresult[1].CriticalFailed
            <= cresult[1].TotalCritical

\* C12: the number of FailedTestsDetails entries equals FailedTests in the result of
\* computeStats, under every interleaving.
C12_DetailsMatchFailed ==
    Returned => Len(cresult[1].FailedTestsDetails) = cresult[1].FailedTests

\* C13: FailureRate and SkippedRate of the result of computeStats are within [0, 100]
\* and are 0 when TotalTests = 0; 0 <= FailedTests <= TotalTests and
\* 0 <= SkippedTests <= TotalTests.
C13_RatesInRange ==
    Returned =>
        /\ RateInRange(cresult[1].FailureRate)
        /\ RateInRange(cresult[1].SkippedRate)
        /\ cresult[1].TotalTests = 0 =>
            (cresult[1].FailureRate = ZeroRate /\ cresult[1].SkippedRate = ZeroRate)
        /\ 0 <= cresult[1].FailedTests /\ cresult[1].FailedTests <= cresult[1].TotalTests
        /\ 0 <= cresult[1].SkippedTests
        /\ cresult[1].SkippedTests <= cresult[1].TotalTests

\* C15: with countSkipped = false SkippedTests stays 0 whatever SKIP tests the tree
\* holds (they count in TotalTests only); SkippedTests is incremented only when
\* countSkipped is true.
C15_SkippedOnlyWhenCounted ==
    (Returned /\ ~countSkipped) => cresult[1].SkippedTests = 0

\* C19: ExecutionTime is >= 0 in every reachable StatsResult, as its growing
\* monotonically from 0 requires, whatever parseable timestamps the nodes carry.
C19_ExecutionTimeNonNegative ==
    /\ fstats.ExecutionTime >= 0
    /\ Returned => cresult[1].ExecutionTime >= 0

IsCritical(test) == test.Status.Critical = "yes"

RECURSIVE CriticalOnly(_)
\* The tree without its non-critical tests.
CriticalOnly(suite) ==
    [suite EXCEPT !.Tests = SelectSeq(suite.Tests, IsCritical),
                  !.Suites = [i \in DOMAIN suite.Suites |-> CriticalOnly(suite.Suites[i])]]

RECURSIVE FlatOps(_, _, _, _, _)
\* The statements of variant v's traversal of tree t under the flags oc and cs, in
\* the order one goroutine would execute them: every spawn replaced by what it
\* starts.
FlatOps(ops, v, t, oc, cs) ==
    Concat([i \in DOMAIN ops |->
             IF ops[i].op = "spawn"
             THEN FlatOps(Program(v, t, oc, cs, ops[i].f), v, t, oc, cs)
             ELSE <<ops[i]>>])

RECURSIVE SumOf(_, _)
\* The sum of count[v] * v over the values v of S.
SumOf(S, count) ==
    IF S = {} THEN 0
    ELSE LET v == CHOOSE x \in S : TRUE IN count[v] * v + SumOf(S \ {v}, count)

\* What the writes to field f among ops add up to.
SumWrites(ops, f) ==
    LET W == {i \in DOMAIN ops : ops[i].op = "write" /\ ops[i].f = f}
        V == {ops[i].v : i \in W}
    IN SumOf(V, [v \in V |-> Cardinality({i \in W : ops[i].v = v})])

IsDetailsWrite(o) == o.op = "write" /\ o.f = "FailedTestsDetails"

\* The StatsResult the statements ops yield when executed one after the other.
FoldFlat(ops) ==
    LET appended == SelectSeq(ops, IsDetailsWrite) IN
    WithRates(
        [TotalSuites |-> SumWrites(ops, "TotalSuites"),
         TotalTests |-> SumWrites(ops, "TotalTests"),
         PassedTests |-> SumWrites(ops, "PassedTests"),
         FailedTests |-> SumWrites(ops, "FailedTests"),
         SkippedTests |-> SumWrites(ops, "SkippedTests"),
         TotalKeywords |-> SumWrites(ops, "TotalKeywords"),
         PassedKeywords |-> SumWrites(ops, "PassedKeywords"),
         FailedKeywords |-> SumWrites(ops, "FailedKeywords"),
         SkippedKeywords |-> SumWrites(ops, "SkippedKeywords"),
         TotalCritical |-> SumWrites(ops, "TotalCritical"),
         CriticalPassed |-> SumWrites(ops, "CriticalPassed"),
         CriticalFailed |-> SumWrites(ops, "CriticalFailed"),
         FailureRate |-> ZeroRate, SkippedRate |-> ZeroRate,
         ExecutionTime |-> SumWrites(ops, "ExecutionTime"),
         FailedTestsDetails |-> [i \in DOMAIN appended |-> appended[i].v]])

\* Both timestamps of the status parse.
Parses(st) == parseRobotTime(st.StartTime).ok /\ parseRobotTime(st.EndTime).ok

\* The status with, where a timestamp of it does not parse, both timestamps replaced
\* by one and the same parseable instant: an elapsed time of zero.
ZeroTimed(st) ==
    IF Parses(st) THEN st
    ELSE [st EXCEPT !.StartTime = "20250101 12:00:00.000",
                    !.EndTime = "20250101 12:00:00.000"]

RECURSIVE ZeroTimedTree(_)
\* The tree with every suite's and test's status so replaced.
ZeroTimedTree(suite) ==
    [suite EXCEPT
        !.Status = ZeroTimed(@),
        !.Tests = [i \in DOMAIN suite.Tests |->
                    [suite.Tests[i] EXCEPT !.Status = ZeroTimed(@)]],
        !.Suites = [i \in DOMAIN suite.Suites |-> ZeroTimedTree(suite.Suites[i])]]

\* The trees the folds below are of: the trees of the model, each also without its
\* non-critical tests and with its unparseable timestamps replaced.
FoldTrees ==
    Trees \cup {CriticalOnly(t) : t \in Trees} \cup {ZeroTimedTree(t) : t \in Trees}

\* The sequential fold of each variant's traversal of each tree under each pair of
\* flags, taking no mutex into account; computed once.
FoldTable ==
    [x \in {"concurrent", "sequential"} \X FoldTrees \X BOOLEAN \X BOOLEAN |->
        FoldFlat(FlatOps(computeStats, x[1], x[2], x[3], x[4]))] @@ <<>>

\* The fold of the traversal under way, were its tree t and its onlyCritical oc.
TreeFold(t, oc) == FoldTable[<<variant, t, oc, countSkipped>>]

\* What the critical tests and the suites alone amount to: every field but
\* TotalSuites from the tree without its non-critical tests, traversed with
\* onlyCritical off; TotalSuites (a suite counts when it holds a test, skipped or
\* not) from the tree as it is.
CriticalFold ==
    [TreeFold(CriticalOnly(tree), FALSE) EXCEPT
        !.TotalSuites = TreeFold(tree, FALSE).TotalSuites]

\* No two goroutines of the traversal update the StatsResult under different mutexes.
OneMutex == variant = "sequential" \/ tree.Suites = <<>>

\* C14: with onlyCritical = true a test whose critical flag is not "yes" changes no
\* field of the StatsResult, whatever its outcome: its goroutine is never started,
\* no counter and no details list ever exceeds what the critical tests and the
\* suites alone amount to, and a traversal under one mutex returns exactly that.
C14_NonCriticalExcluded ==
    onlyCritical =>
        LET fold == CriticalFold IN
        /\ variant = "concurrent" =>
            \A p \in SuiteIds(tree, Root) :
                \A i \in DOMAIN SuiteAt(tree, Root, p).Tests :
                    ~IsCritical(SuiteAt(tree, Root, p).Tests[i]) => tpc[TestId(p, i)] = 0
        /\ \A c \in Counters : fstats[c] <= fold[c]
        /\ Len(fstats.FailedTestsDetails) <= Len(fold.FailedTestsDetails)
        /\ (Returned /\ OneMutex) =>
            /\ SameStats(cresult[1], fold)
            /\ cresult[1].FailedTestsDetails = fold.FailedTestsDetails

\* computeStats has returned under onlyCritical from a tree holding a critical test
\* beside a failed non-critical one.
C14_Witness ==
    /\ Returned /\ onlyCritical /\ OneMutex
    /\ \E i, j \in DOMAIN tree.Tests :
        /\ IsCritical(tree.Tests[i])
        /\ ~IsCritical(tree.Tests[j]) /\ tree.Tests[j].Status.Status = "FAIL"
    /\ cresult[1].TotalTests = 1 /\ cresult[1].FailedTests = 0

\* C18: the pass threshold is the number of passed tests required for success: Exec
\* returns no error exactly when PassedTests reaches PassThreshold, and a successful
\* run is marked unstable when PassedTests is below UnstableThreshold.
C18_PassThresholdCountsPassed ==
    (mainpc = "returned" /\ files > 0) =>
        /\ (execErr = "") <=> (stats.PassedTests >= args.PassThreshold)
        /\ (execErr = "" /\ stats.PassedTests < args.UnstableThreshold) => warned

\* A StatsResult with its two rate fields blanked.
NoRates(s) == [s EXCEPT !.FailureRate = ZeroRate, !.SkippedRate = ZeroRate]

\* The rate r is 100 * n / d.
IsPercent(r, n, d) == r[2] > 0 /\ r[1] * d = 100 * n * r[2]

RECURSIVE RateSum(_, _)
\* The sum of the rates of field f of seq's results, as a fraction.
RateSum(seq, f) ==
    IF seq = <<>> THEN <<0, 1>>
    ELSE LET t == RateSum(Tail(seq), f)
             h == Head(seq)[f]
         IN <<h[1] * t[2] + t[1] * h[2], h[2] * t[2]>>

\* The rate r is the average of the rates of field f of seq's results.
IsAverage(r, seq, f) ==
    r[1] * RateSum(seq, f)[2] * Len(seq) = RateSum(seq, f)[1] * r[2]

\* C20: after a sequence of merges the global FailureRate and SkippedRate are the
\* rates of the merged raw counts (0 when TotalTests is 0), and they are what the
\* same merges yield from inputs whose rate fields are blanked.
C20_RatesFromMergedCounts ==
    pout # <<>> =>
        /\ pout[1].TotalTests > 0 =>
            /\ IsPercent(pout[1].FailureRate, pout[1].FailedTests, pout[1].TotalTests)
            /\ IsPercent(pout[1].SkippedRate, pout[1].SkippedTests, pout[1].TotalTests)
        /\ pout[1].TotalTests = 0 =>
            (pout[1].FailureRate = ZeroRate /\ pout[1].SkippedRate = ZeroRate)
        /\ LET blank == FoldLeft(StatsResult0, [i \in DOMAIN pin |-> NoRates(pin[i])])
           IN /\ pout[1].FailureRate = blank.FailureRate
              /\ pout[1].SkippedRate = blank.SkippedRate

\* Results with different test counts and different rates have been merged, and
\* neither merged rate is the average of the per-file rates.
C20_Witness ==
    /\ pout # <<>>
    /\ \E i, j \in DOMAIN pin :
        /\ pin[i].TotalTests # pin[j].TotalTests
        /\ pin[i].FailureRate # pin[j].FailureRate
    /\ pout[1].FailedTests > 0 /\ pout[1].SkippedTests > 0
    /\ ~IsAverage(pout[1].FailureRate, pin, "FailureRate")
    /\ ~IsAverage(pout[1].SkippedRate, pin, "SkippedRate")

InputErrors == {"output path is required", "threshold values must be non-negative"}

\* The configuration is one the contract calls invalid.
Invalid(a) == a.ReportDirectory = "" \/ a.PassThreshold < 0 \/ a.UnstableThreshold < 0

\* Nothing of Exec has happened: no file located, processed or merged, nothing written.
NothingProcessed ==
    /\ spawned = 0
    /\ \A f \in 1..MaxFiles : gpc[f] = "idle"
    /\ stats = StatsResult0 /\ logged = StatsResult0 /\ droneOutput = <<>>

\* C17: a configuration with a negative PassThreshold or UnstableThreshold, or an
\* empty report directory, is rejected with an input error before any file is
\* processed; one with non-negative thresholds is accepted whatever the order of the
\* two thresholds.
C17_InputsRejectedFirst ==
    /\ Invalid(args) =>
        /\ mainpc \in {"inputs", "returned"}
        /\ NothingProcessed
        /\ mainpc = "returned" => execErr \in InputErrors
    /\ ~Invalid(args) =>
        /\ execErr \notin InputErrors
        /\ mainpc # "inputs" => (mainpc # "returned" \/ files = 0 \/ ~NothingProcessed)

\* A negative pass threshold has been rejected.
C17_Witness ==
    /\ mainpc = "returned"
    /\ args.PassThreshold < 0 /\ args.UnstableThreshold >= 0 /\ args.ReportDirectory # ""
    /\ execErr = "threshold values must be non-negative"
    /\ files > 0 /\ NothingProcessed

\* C16: processFile on a zero-byte file, or on a file whose root suite has no direct
\* test and no direct sub-suite, returns the all-zero StatsResult and no error; it
\* never gets as far as computeStats.
C16_EmptyFileZeroResult ==
    (file.kind = "empty" \/ (file.kind = "xml" /\ tree.Tests = <<>> /\ tree.Suites = <<>>)) =>
        /\ ppc = "returned" => presult = <<FileResult(StatsResult0, "")>>
        /\ ppc # "compute" /\ tpc[Main] = 0 /\ fstats = StatsResult0

\* processFile has returned from a report whose root suite has timestamps and a
\* keyword but no test and no sub-suite.
C16_Witness ==
    /\ ppc = "returned"
    /\ file.kind = "xml" /\ tree = KeywordOnlyTree
    /\ presult = <<FileResult(StatsResult0, "")>>

\* computeStats is past its wg.Wait(): at the rate computation or beyond.
Folded == Returned \/ At(Main, "rates") \/ At(Main, "return")

\* C21: the rates are computed only after the full tree is folded: once computeStats
\* is past its wait, every goroutine started for a test or a sub-suite, at whatever
\* depth, has executed its last statement, none is inside an update, and the only
\* goroutines never started are those of the tests onlyCritical skips.
C21_RatesAfterFold ==
    Folded =>
        \A g \in DOMAIN tpc \ {Main} :
            /\ tpc[g] = 0 \/ Finished(g)
            /\ ~InUpdate(g)
            /\ tpc[g] = 0 => (onlyCritical /\ g \in TestIds(tree))

\* The rates are due in a concurrent traversal whose sub-suite's test has run.
C21_Witness ==
    /\ At(Main, "rates")
    /\ variant = "concurrent" /\ tree \in NestedTrees
    /\ Finished(TestId(SuiteId(Root, 1), 1))
    /\ Finished(TestId(Root, 1))
    /\ fstats.TotalTests > 0

\* How many suite nodes of the tree have a direct test or a direct sub-suite.
NonEmptySuites(t) ==
    Cardinality({p \in SuiteIds(t, Root) :
                    \/ Len(SuiteAt(t, Root, p).Tests) > 0
                    \/ Len(SuiteAt(t, Root, p).Suites) > 0})

\* C22: TotalSuites after computeStats is the number of suite nodes with at least one
\* direct test or direct sub-suite, whatever onlyCritical and countSkipped are.
C22_TotalSuitesCountsNonEmpty ==
    Returned => cresult[1].TotalSuites = NonEmptySuites(tree)

\* The text of the last ERROR-level message of msgs, "" if there is none.
LastErrorText(msgs) ==
    IF \A i \in DOMAIN msgs : msgs[i].Level # "ERROR" THEN ""
    ELSE msgs[CHOOSE i \in DOMAIN msgs :
                /\ msgs[i].Level = "ERROR"
                /\ \A j \in DOMAIN msgs : j > i => msgs[j].Level # "ERROR"].Text

\* The counted FAIL tests, each as <<its suite's call, its index>>.
CountedFails ==
    {x \in UNION {{<<p, i>> : i \in DOMAIN SuiteAt(tree, Root, p).Tests} :
                    p \in SuiteIds(tree, Root)} :
        LET test == SuiteAt(tree, Root, x[1]).Tests[x[2]] IN
        /\ test.Status.Status = "FAIL"
        /\ ~(onlyCritical /\ ~IsCritical(test))}

\* The entry the counted FAIL test x is to have in FailedTestsDetails.
DetailOf(x) ==
    LET suite == SuiteAt(tree, Root, x[1])
        test == suite.Tests[x[2]]
    IN [Name |-> test.Name, Suite |-> suite.Name, Status |-> "FAIL",
        ErrorMessage |-> LastErrorText(test.Status.Messages)]

\* C23: in every interleaving the FailedTestsDetails computeStats returns is, as an
\* unordered collection, one entry per counted FAIL test, with the test's name, its
\* owning suite's name, the label "FAIL" and the text of its last ERROR message.
C23_DetailsSameBag ==
    Returned =>
        /\ Len(cresult[1].FailedTestsDetails) = Cardinality(CountedFails)
        /\ \A x \in CountedFails :
            Count(cresult[1].FailedTestsDetails, DetailOf(x))
                = Cardinality({y \in CountedFails : DetailOf(y) = DetailOf(x)})

RECURSIVE HasKeywordTest(_)
\* Some test of the tree has a keyword.
HasKeywordTest(suite) ==
    \/ \E i \in DOMAIN suite.Tests : suite.Tests[i].Keywords # <<>>
    \/ \E i \in DOMAIN suite.Suites : HasKeywordTest(suite.Suites[i])

\* C24: a suite or test with a timestamp that does not parse contributes zero to
\* ExecutionTime and never fails the computation: a traversal under one mutex returns
\* what the fold returns for the tree in which every such node has an elapsed time of
\* zero (ExecutionTime and every other counter), under several mutexes ExecutionTime
\* never exceeds that fold's, and the traversal is never stopped by a parse failure.
C24_UnparsedTimeAddsZero ==
    LET fold == TreeFold(ZeroTimedTree(tree), onlyCritical)
    IN /\ (Returned /\ OneMutex) =>
            /\ SameStats(cresult[1], fold)
            /\ cresult[1].FailedTestsDetails = fold.FailedTestsDetails
       /\ ~OneMutex => fstats.ExecutionTime <= fold.ExecutionTime
       /\ (variant = "concurrent" \/ ~HasKeywordTest(tree)) =>
            (Returned \/ ENABLED NextTraverse)

\* computeStats has returned from a suite whose end timestamp does not parse, holding
\* a timed test: the test's time is all of ExecutionTime, the suite and the test are
\* counted.
C24_Witness ==
    /\ Returned
    /\ tree \in HalfTimedTrees /\ tree.Tests[1] = TestPassCritical
    /\ cresult[1].ExecutionTime = 1500
    /\ cresult[1].TotalSuites = 1 /\ cresult[1].PassedTests = 1

RECURSIVE KeywordNodes(_, _)
\* How many keyword nodes, at any depth, of the keywords kws have an outcome in S.
KeywordNodes(kws, S) ==
    IF kws = <<>> THEN 0
    ELSE (IF Head(kws).Status.Status \in S THEN 1 ELSE 0)
         + KeywordNodes(Head(kws).Keywords, S)
         + KeywordNodes(Tail(kws), S)

RECURSIVE TestKeywordNodes(_, _)
\* The same, summed over the counted tests of the tree.
TestKeywordNodes(tests, S) ==
    IF tests = <<>> THEN 0
    ELSE (IF onlyCritical /\ ~IsCritical(Head(tests)) THEN 0
          ELSE KeywordNodes(Head(tests).Keywords, S))
         + TestKeywordNodes(Tail(tests), S)

\* The tests of the tree, of every suite, in one sequence.
RECURSIVE AllTests(_)
AllTests(suite) ==
    suite.Tests \o Concat([i \in DOMAIN suite.Suites |-> AllTests(suite.Suites[i])])

Outcomes == {"PASS", "FAIL", "SKIP"}

\* C25: after computeStats TotalKeywords is the number of keyword nodes at any depth
\* below the counted tests, each bucketed by its outcome, and the three buckets sum
\* to TotalKeywords.
C25_KeywordsCounted ==
    Returned =>
        /\ cresult[1].TotalKeywords =
                TestKeywordNodes(AllTests(tree), Outcomes \cup {""})
        /\ cresult[1].PassedKeywords = TestKeywordNodes(AllTests(tree), {"PASS"})
        /\ cresult[1].FailedKeywords = TestKeywordNodes(AllTests(tree), {"FAIL"})
        /\ cresult[1].SkippedKeywords = TestKeywordNodes(AllTests(tree), {"SKIP"})
        /\ cresult[1].PassedKeywords + cresult[1].FailedKeywords
                + cresult[1].SkippedKeywords = cresult[1].TotalKeywords

\* Every located file gave the zero-valued StatsResult.
AllFilesZero == \A f \in Files : fileStats[f] = StatsResult0

\* C26: a run in which every located file yields a zero-valued StatsResult (empty
\* file, empty root suite, or a file that failed to parse) goes on to the threshold
\* evaluation against zero failures and returns no error, whatever the non-negative
\* thresholds.
C26_AllZeroIsNoError ==
    (files > 0 /\ AllFilesZero) =>
        /\ mainpc = "returned" =>
            /\ execErr = "" /\ ~warned
            /\ stats = StatsResult0
            /\ validateThresholds(stats, args) = NoError
        /\ mainpc # "returned" => execErr = ""

\* Exec has returned from two files, one that failed to parse and one that was
\* empty, under thresholds of zero.
C26_Witness ==
    /\ mainpc = "returned" /\ files = 2
    /\ fileErr[1] /\ ~fileErr[2] /\ gpc[2] = "done" /\ AllFilesZero
    /\ args.PassThreshold = 0 /\ args.UnstableThreshold = 0
    /\ execErr = ""

\* How many of the tests have the outcome o.
OutcomeCount(tests, o) == Cardinality({i \in DOMAIN tests : tests[i].Status.Status = o})

\* C27: processFile with countSkipped = false and onlyCritical = false on a report
\* holding PASS, FAIL and SKIP tests returns SkippedTests equal to the number of SKIP
\* tests, a SkippedRate computed from it, and PassedTests + FailedTests +
\* SkippedTests = TotalTests.
C27_ProcessFileCountsSkipped ==
    (/\ ppc = "returned" /\ file.kind = "xml" /\ ~countSkipped /\ ~onlyCritical
     /\ \A o \in Outcomes : OutcomeCount(AllTests(tree), o) > 0) =>
        /\ presult[1].err = ""
        /\ presult[1].stats.SkippedTests = OutcomeCount(AllTests(tree), "SKIP")
        /\ presult[1].stats.SkippedRate =
                Percent(presult[1].stats.SkippedTests, presult[1].stats.TotalTests)
        /\ presult[1].stats.PassedTests + presult[1].stats.FailedTests
                + presult[1].stats.SkippedTests = presult[1].stats.TotalTests

\* C28: keywords that are direct children of a suite contribute to no counter: the
\* four keyword counters never exceed the keyword nodes below the counted tests, and
\* a traversal under one mutex returns exactly those.
C28_SuiteKeywordsUncounted ==
    LET total == TestKeywordNodes(AllTests(tree), Outcomes \cup {""})
        passed == TestKeywordNodes(AllTests(tree), {"PASS"})
        failed == TestKeywordNodes(AllTests(tree), {"FAIL"})
        skipped == TestKeywordNodes(AllTests(tree), {"SKIP"})
    IN /\ fstats.TotalKeywords <= total
       /\ fstats.PassedKeywords <= passed
       /\ fstats.FailedKeywords <= failed
       /\ fstats.SkippedKeywords <= skipped
       /\ (Returned /\ OneMutex) =>
            /\ cresult[1].TotalKeywords = total
            /\ cresult[1].PassedKeywords = passed
            /\ cresult[1].FailedKeywords = failed
            /\ cresult[1].SkippedKeywords = skipped

\* computeStats has returned from a suite with keywords of its own, holding a test
\* with two keywords: those two are all that is counted.
C28_Witness ==
    /\ Returned
    /\ tree \in SuiteKeywordTrees /\ tree.Tests[1] = TestKeywords
    /\ ~onlyCritical
    /\ cresult[1].TotalKeywords = 2 /\ cresult[1].SkippedKeywords = 0

====
